---- MODULE Spec2Model ----
(***************************************************************************)
(* A model of worker.py, the IPO digest worker: the send-eligibility gate  *)
(* (is_sendable_time), the source parsers (NYSE, Nasdaq, parse_date), the  *)
(* day-of-week filter and digest rendering, the Send-State Store (one      *)
(* Redis key) and the orchestration of one run (main).                     *)
(*                                                                         *)
(* Time is counted in minutes since 1970-01-01T00:00 UTC.  A timezone      *)
(* aware datetime is a record [ts, off]: the instant and the UTC offset    *)
(* (minutes) of the zone it is expressed in.                               *)
(***************************************************************************)
EXTENDS Integers, Sequences, FiniteSets, TLC

VARIABLES
    clock,      \* the wall clock: minutes since the epoch, UTC
    store,      \* Redis key email_last_sent: None or an ISO-8601 string
    pc,         \* pc[r]: where run r is in main()
    redis,      \* redis[r]: the run's store handle, Pool or None
    dow,        \* dow[r]: pacnow().isoweekday() as read at line 190, or None
    payload,    \* payload[r]: the mail form fields (subject, text)
    reads,      \* reads[r]: how many times the run read the store
    writes,     \* writes[r]: how many times the run wrote the store
    raised,     \* raised[r]: the exception that ended the run, or None
    outbox,     \* the mails the transport accepted, in order
    ticks,      \* how often the clock advanced
    probe       \* result of a pure function applied to drawn inputs

vars == <<clock, store, pc, redis, dow, payload, reads, writes, raised,
          outbox, ticks, probe>>

\* Python's None, and JSON's null
None == [none |-> TRUE]
\* a connected aioredis pool
Pool == [pool |-> "redis"]

(***************************************************************************)
(* Bounds of the model.                                                    *)
(***************************************************************************)
\* runs (process invocations) that may overlap
NumRuns == 2
\* clock advances per behaviour of Spec
MaxTicks == 1
\* days of the window the gate's inputs are drawn from
WindowDays == 4
\* minutes between two drawn instants
Stride == 30
\* rows per upstream response
MaxRows == 2

MinutesPerHour == 60
MinutesPerDay == 24 * MinutesPerHour

(***************************************************************************)
(* The proleptic Gregorian calendar of datetime.                           *)
(***************************************************************************)
\* days since 1970-01-01 of the civil date y-m-d
DaysFromCivil(y, m, d) ==
    LET yy  == IF m <= 2 THEN y - 1 ELSE y
        era == yy \div 400
        yoe == yy - era * 400
        mp  == IF m > 2 THEN m - 3 ELSE m + 9
        doy == (153 * mp + 2) \div 5 + d - 1
        doe == yoe * 365 + yoe \div 4 - yoe \div 100 + doy
    IN  era * 146097 + doe - 719468

\* the civil date of a day number
CivilFromDays(z0) ==
    LET z   == z0 + 719468
        era == z \div 146097
        doe == z - era * 146097
        yoe == (doe - doe \div 1460 + doe \div 36524 - doe \div 146096) \div 365
        doy == doe - (365 * yoe + yoe \div 4 - yoe \div 100)
        mp  == (5 * doy + 2) \div 153
        d   == doy - (153 * mp + 2) \div 5 + 1
        m   == IF mp < 10 THEN mp + 3 ELSE mp - 9
        y   == yoe + era * 400 + (IF m <= 2 THEN 1 ELSE 0)
    IN  [year |-> y, month |-> m, day |-> d]

\* date.isoweekday() of a day number: Monday is 1, Sunday is 7
IsoWeekdayOfDays(z) == ((z + 3) % 7) + 1

IsLeap(y) == (y % 4 = 0 /\ y % 100 # 0) \/ y % 400 = 0

DaysInMonth(y, m) ==
    IF m = 2 THEN (IF IsLeap(y) THEN 29 ELSE 28)
    ELSE IF m \in {4, 6, 9, 11} THEN 30 ELSE 31

\* the first Sunday on or after day d of month m of year y, as a day number
SundayOnOrAfter(y, m, d) ==
    LET z == DaysFromCivil(y, m, d)
    IN  z + ((7 - IsoWeekdayOfDays(z)) % 7)

(***************************************************************************)
(* pytz.timezone("US/Pacific"): PST (UTC-8), and PDT (UTC-7) from the      *)
(* second Sunday of March, 02:00 PST, to the first Sunday of November,     *)
(* 02:00 PDT.                                                              *)
(***************************************************************************)
PACIFC_TIMEZONE(ts) ==
    LET y      == CivilFromDays(ts \div MinutesPerDay).year
        dstOn  == SundayOnOrAfter(y, 3, 8) * MinutesPerDay + 10 * MinutesPerHour
        dstOff == SundayOnOrAfter(y, 11, 1) * MinutesPerDay + 9 * MinutesPerHour
    IN  IF dstOn <= ts /\ ts < dstOff THEN -7 * MinutesPerHour
        ELSE -8 * MinutesPerHour

\* the fields of a datetime, read in its own zone
LocalDays(dt)  == (dt.ts + dt.off) \div MinutesPerDay
DayOf(dt)      == CivilFromDays(LocalDays(dt)).day
HourOf(dt)     == ((dt.ts + dt.off) % MinutesPerDay) \div MinutesPerHour
isoweekday(dt) == IsoWeekdayOfDays(LocalDays(dt))

\* datetime.utcnow().replace(tzinfo=pytz.UTC)
utcnow(now) == [ts |-> now, off |-> 0]

\* utcnow().astimezone(PACIFC_TIMEZONE)
pacnow(now) == [ts |-> utcnow(now).ts, off |-> PACIFC_TIMEZONE(utcnow(now).ts)]

\* datetime.isoformat() of a naive UTC datetime: the civil fields it prints
isoformat(ts) ==
    LET c == CivilFromDays(ts \div MinutesPerDay)
    IN  [year |-> c.year, month |-> c.month, day |-> c.day,
         hour |-> (ts % MinutesPerDay) \div MinutesPerHour,
         minute |-> ts % MinutesPerHour]

\* datetime.fromisoformat(s).replace(tzinfo=pytz.UTC)
fromisoformat(s) ==
    [ts  |-> DaysFromCivil(s.year, s.month, s.day) * MinutesPerDay
             + s.hour * MinutesPerHour + s.minute,
     off |-> 0]

SATURDAY == 6
SUNDAY == 0

(***************************************************************************)
(* The Send-State Store and the eligibility gate.                          *)
(***************************************************************************)
\* get_last_sent(redis): the key's value, None without a store handle
get_last_sent(rds, st) == IF rds = None THEN None ELSE st

\* set_last_sent writing the US/Pacific wall clock time for the UTC time
set_last_sent_local(rds, st, now) ==
    IF rds = None THEN st ELSE isoformat(now + PACIFC_TIMEZONE(now))

\* set_last_sent(redis): the store after the write at instant now
set_last_sent(rds, st, now) == IF rds = None THEN st ELSE isoformat(now)

\* is_sendable_time with the weekday test ahead of the test for no last send
is_sendable_time_saturday_first(last_sent, now) ==
    IF isoweekday(pacnow(now)) = SATURDAY THEN FALSE
    ELSE IF last_sent = None THEN TRUE
    ELSE \/ /\ 8 <= HourOf(pacnow(now))
            /\ HourOf(pacnow(now)) <= 10
            /\ DayOf(fromisoformat(last_sent)) # DayOf(pacnow(now))
         \/ now - fromisoformat(last_sent).ts >= MinutesPerDay

\* is_sendable_time without the weekday test
is_sendable_time_no_saturday(last_sent, now) ==
    IF last_sent = None THEN TRUE
    ELSE \/ /\ 8 <= HourOf(pacnow(now))
            /\ HourOf(pacnow(now)) <= 10
            /\ DayOf(fromisoformat(last_sent)) # DayOf(pacnow(now))
         \/ now - fromisoformat(last_sent).ts >= MinutesPerDay

\* is_sendable_time with > for >= in the test of the elapsed time
is_sendable_time_over_a_day(last_sent, now) ==
    IF last_sent = None THEN TRUE
    ELSE IF isoweekday(pacnow(now)) = SATURDAY THEN FALSE
    ELSE \/ /\ 8 <= HourOf(pacnow(now))
            /\ HourOf(pacnow(now)) <= 10
            /\ DayOf(fromisoformat(last_sent)) # DayOf(pacnow(now))
         \/ now - fromisoformat(last_sent).ts > MinutesPerDay

\* is_sendable_time without the comparison of the days in the morning rule
is_sendable_time_any_morning(last_sent, now) ==
    IF last_sent = None THEN TRUE
    ELSE IF isoweekday(pacnow(now)) = SATURDAY THEN FALSE
    ELSE \/ /\ 8 <= HourOf(pacnow(now))
            /\ HourOf(pacnow(now)) <= 10
         \/ now - fromisoformat(last_sent).ts >= MinutesPerDay

\* is_sendable_time, given what get_last_sent returned and the clock
is_sendable_time(last_sent, now) ==
    IF last_sent = None THEN TRUE
    ELSE LET last_send_time   == fromisoformat(last_sent)
             current_time_pac == pacnow(now)
         IN  IF isoweekday(current_time_pac) = SATURDAY THEN FALSE
             ELSE \/ /\ 8 <= HourOf(current_time_pac)
                     /\ HourOf(current_time_pac) <= 10
                     /\ DayOf(last_send_time) # DayOf(current_time_pac)
                  \/ current_time_pac.ts - last_send_time.ts >= MinutesPerDay

(***************************************************************************)
(* JSON values.  null is None; a string is [t |-> "str", c |-> chunks],    *)
(* the chunks (one per character where the code looks inside the string)   *)
(* concatenating to its text; a number is [t |-> "num", i, f]: integer     *)
(* part and fraction digits, f = "" for an integer literal.  Missing       *)
(* stands for a key the document does not hold.                            *)
(***************************************************************************)
Missing == [missing |-> TRUE]
JStr(chunks) == [t |-> "str", c |-> chunks]
JInt(n) == [t |-> "num", i |-> n, f |-> ""]
JFloat(n, frac) == [t |-> "num", i |-> n, f |-> frac]
Raise(name) == [error |-> name]
IsError(v) == DOMAIN v = {"error"}

RECURSIVE Concat(_)
Concat(chunks) ==
    IF chunks = <<>> THEN "" ELSE Head(chunks) \o Concat(Tail(chunks))

RECURSIVE Join(_, _)
\* sep.join(strs)
Join(sep, strs) ==
    IF strs = <<>> THEN ""
    ELSE IF Len(strs) = 1 THEN strs[1]
    ELSE strs[1] \o sep \o Join(sep, Tail(strs))

\* str(v), as an f-string prints a field
Str(v) ==
    IF v = None THEN "None"
    ELSE IF v.t = "str" THEN Concat(v.c)
    ELSE IF v.f = "" THEN ToString(v.i)
    ELSE ToString(v.i) \o "." \o v.f

\* bool(v)
Truthy(v) ==
    IF v = None THEN FALSE
    ELSE IF v.t = "str" THEN v.c # <<>>
    ELSE ~(v.i = 0 /\ v.f \in {"", "0"})

Digits == <<"0", "1", "2", "3", "4", "5", "6", "7", "8", "9">>
IsDigit(ch) == \E k \in 1..10 : Digits[k] = ch
DigitVal(ch) == (CHOOSE k \in 1..10 : Digits[k] = ch) - 1
AllDigits(chars) == \A k \in 1..Len(chars) : IsDigit(chars[k])

RECURSIVE DecimalVal(_)
DecimalVal(chars) ==
    IF chars = <<>> THEN 0
    ELSE 10 * DecimalVal(SubSeq(chars, 1, Len(chars) - 1))
         + DigitVal(chars[Len(chars)])

RECURSIVE SplitOn(_, _)
\* chars.split(sepch): the fields between the separators
SplitOn(sepch, chars) ==
    IF \A k \in 1..Len(chars) : chars[k] # sepch THEN <<chars>>
    ELSE LET k == CHOOSE j \in 1..Len(chars) :
                      chars[j] = sepch /\ \A h \in 1..(j - 1) : chars[h] # sepch
         IN  <<SubSeq(chars, 1, k - 1)>>
             \o SplitOn(sepch, SubSeq(chars, k + 1, Len(chars)))

\* datetime.strptime(chars, "%m/%d/%Y"): midnight of the date, or ValueError
strptime(chars) ==
    LET fs == SplitOn("/", chars)
    IN  IF Len(fs) # 3 THEN Raise("ValueError")
        ELSE LET mm == fs[1]
                 dd == fs[2]
                 yy == fs[3]
             IN  IF \/ ~(Len(mm) \in {1, 2} /\ AllDigits(mm))
                    \/ ~(Len(dd) \in {1, 2} /\ AllDigits(dd))
                    \/ ~(Len(yy) = 4 /\ AllDigits(yy))
                 THEN Raise("ValueError")
                 ELSE LET m == DecimalVal(mm)
                          d == DecimalVal(dd)
                          y == DecimalVal(yy)
                      IN  IF m \in 1..12 /\ y >= 1 /\ d >= 1
                             /\ d <= DaysInMonth(y, m)
                          THEN [ts  |-> DaysFromCivil(y, m, d) * MinutesPerDay,
                                off |-> 0]
                          ELSE Raise("ValueError")

\* parse_date: the result of strptime is computed and dropped; every path
\* of the function ends in None
parse_date(date_str) ==
    IF ~Truthy(date_str) THEN None
    ELSE IF IsError(strptime(date_str.c)) THEN None
    ELSE None

\* filter_company with the test for a missing date inverted
filter_company_or_none(company, d) ==
    company.expected_date = None \/ isoweekday(company.expected_date) = d

filter_company(company, d) ==
    company.expected_date # None /\ isoweekday(company.expected_date) = d

make_company_line(name, symbol) ==
    IF Truthy(symbol)
    THEN "Company: " \o Str(name) \o " (" \o Str(symbol) \o ")"
    ELSE "Company: " \o Str(name)

\* int(v): the integer, or the exception int raises
IntOf(v) ==
    IF v = None THEN Raise("TypeError")
    ELSE IF v.t = "num" THEN JInt(v.i)
    ELSE IF v.c # <<>> /\ AllDigits(v.c) THEN JInt(DecimalVal(v.c))
    ELSE Raise("ValueError")

\* int(v) if int(v) == v else v
IntIfWhole(v) ==
    IF IsError(IntOf(v)) THEN IntOf(v)
    ELSE IF v.t = "num" /\ v.f \in {"", "0"} THEN IntOf(v)
    ELSE v

(***************************************************************************)
(* The source parsers.  A constructor yields the object or the exception   *)
(* it raises.                                                              *)
(***************************************************************************)
\* the first exception among the steps of a constructor, None if none raises
RECURSIVE FirstError(_)
FirstError(steps) ==
    IF steps = <<>> THEN None
    ELSE IF steps[1] = Missing THEN Raise("KeyError")
    ELSE IF IsError(steps[1]) THEN steps[1]
    ELSE FirstError(Tail(steps))

\* NYSE.__init__
NYSE(p) ==
    LET amount_filed == p.current_filed_proceeds_with_overallotment_usd_amt
        shares_filed == p.current_shares_filed
        err == FirstError(<<p.issuer_nm, p.symbol,
                            amount_filed,
                            IF amount_filed = Missing THEN Missing
                            ELSE IntIfWhole(amount_filed),
                            shares_filed,
                            IF shares_filed = Missing THEN Missing
                            ELSE IntIfWhole(shares_filed),
                            p.current_file_price_range_usd,
                            p.expected_dt_report>>)
    IN  IF err # None THEN err
        ELSE [kind          |-> "NYSE",
              name          |-> p.issuer_nm,
              symbol        |-> p.symbol,
              amount_filed  |-> IntIfWhole(amount_filed),
              shares_filed  |-> IntIfWhole(shares_filed),
              price_range   |-> p.current_file_price_range_usd,
              expected_date |-> parse_date(p.expected_dt_report)]

\* NYSE.__str__
NYSE_str(c) ==
    Join("\n", <<make_company_line(c.name, c.symbol),
                 "Offering: " \o Str(c.shares_filed) \o " / "
                     \o Str(c.amount_filed),
                 "Price: " \o Str(c.price_range)>>)

\* s.replace(",", "")
StripCommas(v) == JStr(SelectSeq(v.c, LAMBDA ch : ch # ","))

\* Nasdaq.__init__
Nasdaq(p) ==
    LET shares  == p.sharesOffered
        stripped == IF shares = Missing THEN Missing
                    ELSE IF shares = None \/ shares.t # "str"
                         THEN Raise("AttributeError")
                    ELSE StripCommas(shares)
        amount_filed == IF stripped = Missing \/ IsError(stripped) THEN stripped
                        ELSE IF Truthy(stripped)
                             THEN (IF IsError(IntOf(stripped))
                                   THEN IntOf(stripped) ELSE stripped)
                        ELSE JStr(<<"Unspecified">>)
        err == FirstError(<<p.companyName, p.proposedTickerSymbol, shares,
                            stripped, amount_filed, p.proposedSharePrice,
                            p.expectedPriceDate>>)
    IN  IF err # None THEN err
        ELSE [kind          |-> "Nasdaq",
              name          |-> p.companyName,
              symbol        |-> p.proposedTickerSymbol,
              amount_filed  |-> amount_filed,
              price_range   |-> p.proposedSharePrice,
              expected_date |-> parse_date(p.expectedPriceDate)]

\* Nasdaq.__str__
Nasdaq_str(c) ==
    Join("\n", <<make_company_line(c.name, c.symbol),
                 "Offering: " \o Str(c.amount_filed),
                 "Price: " \o Str(c.price_range)>>)

\* str(c)
str(c) == IF c.kind = "NYSE" THEN NYSE_str(c) ELSE Nasdaq_str(c)

\* a list comprehension over constructors: the list built (wrapped in a
\* record), or the first exception a row raised
Comprehend(built) ==
    IF \E k \in 1..Len(built) : IsError(built[k])
    THEN built[CHOOSE k \in 1..Len(built) :
                   IsError(built[k]) /\ \A h \in 1..(k - 1) : ~IsError(built[h])]
    ELSE [list |-> built]

(***************************************************************************)
(* An upstream answer: [kind |-> "raise"] when the transport raises        *)
(* (connection error, timeout), else [kind |-> "http", status, json,       *)
(* keyed, rows]                                                            *)
(* with json telling whether the body is a JSON document, keyed whether    *)
(* the document holds the source's key path, and rows the rows there.      *)
(***************************************************************************)
\* get_nyse(session)
get_nyse(resp) ==
    IF resp.kind = "raise" THEN Raise("TransportError")
    ELSE IF ~resp.json THEN Raise("JSONDecodeError")
    ELSE IF resp.status # 200 THEN [list |-> <<>>]
    ELSE IF ~resp.keyed THEN Raise("KeyError")
    ELSE Comprehend([k \in 1..Len(resp.rows) |-> NYSE(resp.rows[k])])

\* get_nasdaq(session)
get_nasdaq(resp) ==
    IF resp.kind = "raise" THEN Raise("TransportError")
    ELSE IF ~resp.json THEN Raise("JSONDecodeError")
    ELSE IF resp.status # 200 THEN [list |-> <<>>]
    ELSE IF ~resp.keyed THEN Raise("KeyError")
    ELSE Comprehend([k \in 1..Len(resp.rows) |-> Nasdaq(resp.rows[k])])

\* main, lines 198-200 with the sources chained in the other order
Chained_nasdaq_first(nyse_resp, nasdaq_resp, enable_nasdaq) ==
    LET nyse   == get_nyse(nyse_resp)
        nasdaq == IF enable_nasdaq THEN get_nasdaq(nasdaq_resp)
                  ELSE [list |-> <<>>]
    IN  IF IsError(nyse) THEN nyse
        ELSE IF IsError(nasdaq) THEN nasdaq
        ELSE [list |-> nasdaq.list \o nyse.list]

\* main, lines 198-200: chain(nyse, nasdaq), or the exception a fetch raises
Chained(nyse_resp, nasdaq_resp, enable_nasdaq) ==
    LET nyse   == get_nyse(nyse_resp)
        nasdaq == IF enable_nasdaq THEN get_nasdaq(nasdaq_resp)
                  ELSE [list |-> <<>>]
    IN  IF IsError(nyse) THEN nyse
        ELSE IF IsError(nasdaq) THEN nasdaq
        ELSE [list |-> nyse.list \o nasdaq.list]

\* main, lines 201-202
Filtered(companies, d) ==
    IF d # SUNDAY
    THEN SelectSeq(companies, LAMBDA c : filter_company(c, d))
    ELSE companies

\* main, line 203
Render(companies) ==
    Join("\n\n", [k \in 1..Len(companies) |-> str(companies[k])])

\* main, lines 198-203: the digest text of the run (in a record), or the
\* exception raised
Digest(nyse_resp, nasdaq_resp, enable_nasdaq, d) ==
    LET chained == Chained(nyse_resp, nasdaq_resp, enable_nasdaq)
    IN  IF IsError(chained) THEN chained
        ELSE [text |-> Render(Filtered(chained.list, d))]

\* main, lines 191-196
Subject(d) == (IF d = SUNDAY THEN "This week" ELSE "Today") \o "'s IPOs"

(***************************************************************************)
(* The inputs the model draws: instants, upstream rows and answers.        *)
(***************************************************************************)
\* 2021-03-12T00:00 UTC, a Friday; US/Pacific turns to PDT on Sunday
\* 2021-03-14
WindowStart == DaysFromCivil(2021, 3, 12) * MinutesPerDay

\* the instants the gate is applied to
GateInstants ==
    {WindowStart + k * Stride :
         k \in 0..((WindowDays * MinutesPerDay) \div Stride)}

\* the instants a behaviour of the runs starts at: 23:30 of the day before
\* and 08:30 (PST) of the Saturday, the Sunday and the Wednesday that follow
\* the window's start
StartInstants ==
    {WindowStart + d * MinutesPerDay + h * MinutesPerHour + Stride :
         d \in {1, 2, 5}, h \in {7, 16}}

\* one instant of each of seven consecutive days, for the digest pipeline
DigestInstants ==
    {WindowStart + d * MinutesPerDay + 17 * MinutesPerHour : d \in 0..6}

\* by how much one step of the clock advances it
Jumps == {Stride, MinutesPerDay - Stride, MinutesPerDay}

\* how long before the start the last mail may have been sent
Ages == {Stride, 16 * MinutesPerHour, MinutesPerDay}

NoDate == JStr(<<>>)
Wednesday == JStr(<<"0", "3", "/", "1", "0", "/", "2", "0", "2", "1">>)
Thursday == JStr(<<"3", "/", "1", "1", "/", "2", "0", "2", "1">>)
Sunday == JStr(<<"0", "3", "/", "1", "4", "/", "2", "0", "2", "1">>)
BadDate == JStr(<<"0", "2", "/", "3", "0", "/", "2", "0", "2", "1">>)

NyseRow(name, symbol, amount, shares, price, date) ==
    [issuer_nm |-> name, symbol |-> symbol,
     current_filed_proceeds_with_overallotment_usd_amt |-> amount,
     current_shares_filed |-> shares,
     current_file_price_range_usd |-> price,
     expected_dt_report |-> date]

\* a calendar as the primary exchange serves it
NyseCalendar ==
    <<NyseRow(JStr(<<"Sana Biotechnology, Inc.">>), JStr(<<"SANA">>),
             JInt(370875000), JInt(15000000), JStr(<<"20.00 - 23.00">>),
             Wednesday),
     NyseRow(JStr(<<"Acme Corp">>), None,
             JFloat(1250000, "5"), JFloat(500000, "0"), JStr(<<"10.00">>),
             NoDate),
     NyseRow(JStr(<<"Borealis plc">>), JStr(<<"BORE">>),
             JInt(9000000), JInt(600000), JStr(<<"14.00 - 16.00">>),
             Sunday),
     NyseRow(JStr(<<"Cygnus Ltd">>), JStr(<<>>),
             JInt(1000), JInt(10), JStr(<<"1.00">>),
             BadDate)>>

NyseSamples == {NyseCalendar[k] : k \in 1..Len(NyseCalendar)}

NasdaqRow(name, symbol, price, shares, date) ==
    [companyName |-> name, proposedTickerSymbol |-> symbol,
     proposedSharePrice |-> price, sharesOffered |-> shares,
     expectedPriceDate |-> date]

\* a calendar as the secondary exchange serves it
NasdaqCalendar ==
    <<NasdaqRow(JStr(<<"ON24 INC">>), JStr(<<"ONTF">>), JStr(<<"45.00-50.00">>),
               JStr(<<"8", ",", "6", "0", "0", ",", "9", "7", "7">>), Wednesday),
     NasdaqRow(JStr(<<"Delta Acquisition">>), None, JStr(<<"10.00">>),
               JStr(<<>>), Thursday)>>

\* a row whose sharesOffered is null (the field is nullable upstream)
NullSharesRow ==
    NasdaqRow(JStr(<<"Epsilon Health">>), JStr(<<"EPSH">>), JStr(<<"12.00">>),
              None, Wednesday)

NasdaqSamples ==
    {NasdaqCalendar[k] : k \in 1..Len(NasdaqCalendar)} \cup {NullSharesRow}

\* the sequences of at most n elements of S
SeqsUpTo(S, n) == UNION {[1..k -> S] : k \in 0..n}

Failures ==
    {[kind |-> "raise"],
     [kind |-> "http", status |-> 500, json |-> TRUE, keyed |-> FALSE,
      rows |-> <<>>]}

Ok(rs) ==
    [kind |-> "http", status |-> 200, json |-> TRUE, keyed |-> TRUE,
     rows |-> rs]

\* a 200 answer whose body is not JSON, and one whose document lacks the
\* source's key path
Unparseable ==
    {[kind |-> "http", status |-> 200, json |-> FALSE, keyed |-> FALSE,
      rows |-> <<>>],
     [kind |-> "http", status |-> 200, json |-> TRUE, keyed |-> FALSE,
      rows |-> <<>>]}

\* the answers a source gives a run: a failure, or its calendar
NyseResponses == Failures \cup {Ok(NyseCalendar)}
NasdaqResponses == Failures \cup {Ok(NasdaqCalendar)}

\* the answers the digest pipeline is applied to on its own
NyseInputs ==
    Failures \cup Unparseable
        \cup {Ok(rs) : rs \in SeqsUpTo(NyseSamples, MaxRows)}
NasdaqInputs ==
    Failures \cup Unparseable
        \cup {Ok(rs) : rs \in SeqsUpTo(NasdaqSamples, MaxRows)}

(***************************************************************************)
(* The runs of main().  Each run is one process invocation; runs share     *)
(* the clock, the store and the mail transport, and may overlap.  The      *)
(* locals of a run (redis, dow, payload) are gone when its process exits.  *)
(***************************************************************************)
Runs == 1..NumRuns

Idle == [op |-> "none"]

RunsInit ==
    /\ pc = [r \in Runs |-> "START"]
    /\ redis = [r \in Runs |-> None]
    /\ dow = [r \in Runs |-> None]
    /\ payload = [r \in Runs |-> None]
    /\ reads = [r \in Runs |-> 0]
    /\ writes = [r \in Runs |-> 0]
    /\ raised = [r \in Runs |-> None]
    /\ outbox = <<>>
    /\ ticks = 0

Init ==
    /\ clock \in StartInstants
    /\ store \in {None} \cup {isoformat(clock - a) : a \in Ages}
    /\ RunsInit
    /\ probe = Idle

\* the process of run r exits: normally (e = None), or with exception e
\* surfaced to the caller from where the run was
Exit(r, e) ==
    /\ pc' = [pc EXCEPT ![r] = IF e = None THEN "DONE" ELSE "ABORTED"]
    /\ raised' = [raised EXCEPT
                      ![r] = IF e = None THEN None
                             ELSE [error |-> e.error, at |-> pc[r]]]
    /\ redis' = [redis EXCEPT ![r] = None]
    /\ dow' = [dow EXCEPT ![r] = None]
    /\ payload' = [payload EXCEPT ![r] = None]

\* main, lines 178-183: REDIS_URL unset, --ignore-redis given, or
\* create_redis_pool, which connects or raises
Start(r) ==
    /\ pc[r] = "START"
    /\ \E env \in {"unset", "ignore", "connect", "unreachable"} :
          IF env = "unreachable"
          THEN Exit(r, Raise("ConnectionRefusedError"))
          ELSE /\ redis' = [redis EXCEPT
                                ![r] = IF env = "connect" THEN Pool ELSE None]
               /\ pc' = [pc EXCEPT ![r] = "GATE_CHECK"]
               /\ UNCHANGED <<raised, dow, payload>>
    /\ UNCHANGED <<clock, store, reads, writes, outbox, ticks, probe>>

\* main, lines 185-187: a run the gate denies returns
AfterGate_no_return(sendable) == "CLASSIFY"

AfterGate(sendable) == IF sendable THEN "CLASSIFY" ELSE "DONE"

\* main, lines 185-187 with the store written at the gate, as a run would
\* to reserve the send window when the gate passes it
GateCheck_reserving(r) ==
    /\ pc[r] = "GATE_CHECK"
    /\ reads' = [reads EXCEPT ![r] = @ + (IF redis[r] = None THEN 0 ELSE 1)]
    /\ LET sendable == is_sendable_time(get_last_sent(redis[r], store), clock)
       IN  IF AfterGate(sendable) = "DONE"
           THEN /\ Exit(r, None)
                /\ UNCHANGED <<store, writes>>
           ELSE /\ pc' = [pc EXCEPT ![r] = AfterGate(sendable)]
                /\ store' = set_last_sent(redis[r], store, clock)
                /\ writes' = [writes EXCEPT
                                  ![r] = @ + (IF redis[r] = None THEN 0 ELSE 1)]
                /\ UNCHANGED <<raised, redis, dow, payload>>
    /\ UNCHANGED <<clock, outbox, ticks, probe>>

\* main, lines 185-187: is_sendable_time(redis)
GateCheck(r) ==
    /\ pc[r] = "GATE_CHECK"
    /\ reads' = [reads EXCEPT ![r] = @ + (IF redis[r] = None THEN 0 ELSE 1)]
    /\ LET sendable == is_sendable_time(get_last_sent(redis[r], store), clock)
       IN  IF AfterGate(sendable) = "DONE"
           THEN Exit(r, None)
           ELSE /\ pc' = [pc EXCEPT ![r] = AfterGate(sendable)]
                /\ UNCHANGED <<raised, redis, dow, payload>>
    /\ UNCHANGED <<clock, store, writes, outbox, ticks, probe>>

\* main, lines 189-196 with a second call of get_last_sent
Classify_rereads(r) ==
    /\ pc[r] = "CLASSIFY"
    /\ reads' = [reads EXCEPT ![r] = @ + (IF redis[r] = None THEN 0 ELSE 1)]
    /\ LET d == isoweekday(pacnow(clock))
       IN  /\ dow' = [dow EXCEPT ![r] = d]
           /\ payload' = [payload EXCEPT
                              ![r] = [subject |-> Subject(d), text |-> ""]]
    /\ pc' = [pc EXCEPT ![r] = "FETCH_AND_FILTER"]
    /\ UNCHANGED <<clock, store, redis, writes, raised, outbox, ticks, probe>>

\* main, lines 189-196: the weekday of a second reading of the clock, and
\* the subject
Classify(r) ==
    /\ pc[r] = "CLASSIFY"
    /\ LET d == isoweekday(pacnow(clock))
       IN  /\ dow' = [dow EXCEPT ![r] = d]
           /\ payload' = [payload EXCEPT
                              ![r] = [subject |-> Subject(d), text |-> ""]]
    /\ pc' = [pc EXCEPT ![r] = "FETCH_AND_FILTER"]
    /\ UNCHANGED <<clock, store, redis, reads, writes, raised, outbox, ticks,
                   probe>>

\* main, lines 197-203: what the fetches and the rendering end in on
\* weekday d (a digest or an exception), for each choice of the answers of
\* the sources and of ENABLE_NASDAQ_EMAIL
Digests ==
    [d \in 1..7 |->
         {Digest(nyse_resp, nasdaq_resp, enable_nasdaq, d) :
              nyse_resp \in NyseResponses, nasdaq_resp \in NasdaqResponses,
              enable_nasdaq \in BOOLEAN}]

\* main, lines 197-203: fetch both sources, filter, render
FetchAndFilter(r) ==
    /\ pc[r] = "FETCH_AND_FILTER"
    /\ \E digest \in Digests[dow[r]] :
          IF IsError(digest)
          THEN Exit(r, digest)
          ELSE /\ payload' = [payload EXCEPT ![r].text = digest.text]
               /\ pc' = [pc EXCEPT ![r] = "SEND"]
               /\ UNCHANGED <<raised, redis, dow>>
    /\ UNCHANGED <<clock, store, reads, writes, outbox, ticks, probe>>

\* main, lines 204-206 without raise_for_status
PostResult_unchecked(answer) ==
    IF answer = "raise" THEN Raise("TransportError")
    ELSE IF answer = "2xx-not-json" THEN Raise("JSONDecodeError")
    ELSE None

\* main, lines 204-206: the exception the post of the mail ends in, None if
\* none: session.post raises on a transport error, raise_for_status on a
\* non-success answer, resp.json() on an answer that is not JSON
PostResult(answer) ==
    IF answer = "raise" THEN Raise("TransportError")
    ELSE IF answer = "non-2xx" THEN Raise("HTTPStatusError")
    ELSE IF answer = "2xx-not-json" THEN Raise("JSONDecodeError")
    ELSE None

\* main, lines 204-206 with set_last_sent ahead of line 206, as soon as the
\* transport accepted the mail
Send_recording(r) ==
    /\ pc[r] = "SEND"
    /\ \E answer \in {"2xx", "2xx-not-json", "non-2xx", "raise"} :
          LET accepted == answer \in {"2xx", "2xx-not-json"}
          IN  /\ outbox' = IF accepted
                           THEN Append(outbox, [run     |-> r,
                                                at      |-> clock,
                                                subject |-> payload[r].subject,
                                                text    |-> payload[r].text])
                           ELSE outbox
              /\ store' = IF accepted
                          THEN set_last_sent(redis[r], store, clock)
                          ELSE store
              /\ writes' = [writes EXCEPT
                                ![r] = @ + (IF accepted /\ redis[r] # None
                                            THEN 1 ELSE 0)]
              /\ IF PostResult(answer) = None
                 THEN /\ pc' = [pc EXCEPT ![r] = "RECORD_STATE"]
                      /\ UNCHANGED <<raised, redis, dow, payload>>
                 ELSE Exit(r, PostResult(answer))
    /\ UNCHANGED <<clock, reads, ticks, probe>>

\* main, lines 204-206: post the mail
Send(r) ==
    /\ pc[r] = "SEND"
    /\ \E answer \in {"2xx", "2xx-not-json", "non-2xx", "raise"} :
          /\ outbox' = IF answer \in {"2xx", "2xx-not-json"}
                       THEN Append(outbox, [run     |-> r,
                                            at      |-> clock,
                                            subject |-> payload[r].subject,
                                            text    |-> payload[r].text])
                       ELSE outbox
          /\ IF PostResult(answer) = None
             THEN /\ pc' = [pc EXCEPT ![r] = "RECORD_STATE"]
                  /\ UNCHANGED <<raised, redis, dow, payload>>
             ELSE Exit(r, PostResult(answer))
    /\ UNCHANGED <<clock, store, reads, writes, ticks, probe>>

\* main, line 207: set_last_sent(redis)
RecordState(r) ==
    /\ pc[r] = "RECORD_STATE"
    /\ store' = set_last_sent(redis[r], store, clock)
    /\ writes' = [writes EXCEPT ![r] = @ + (IF redis[r] = None THEN 0 ELSE 1)]
    /\ Exit(r, None)
    /\ UNCHANGED <<clock, reads, outbox, ticks, probe>>

\* time passes
Tick ==
    /\ ticks < MaxTicks
    /\ \E j \in Jumps : clock' = clock + j
    /\ ticks' = ticks + 1
    /\ UNCHANGED <<store, pc, redis, dow, payload, reads, writes, raised,
                   outbox, probe>>

Step(r) ==
    \/ Start(r)
    \/ GateCheck(r)
    \/ Classify(r)
    \/ FetchAndFilter(r)
    \/ Send(r)
    \/ RecordState(r)

Next == (\E r \in Runs : Step(r)) \/ Tick

Spec == Init /\ [][Next]_vars

(***************************************************************************)
(* The runs one after the other, as a scheduler starts them that waits     *)
(* for a process to exit before it starts the next: run r starts only      *)
(* when the runs before it have exited.                                    *)
(***************************************************************************)
Exited(r) == pc[r] \in {"DONE", "ABORTED"}

SeqStep(r) ==
    /\ pc[r] = "START" => \A x \in 1..(r - 1) : Exited(x)
    /\ Step(r)

SeqNext == (\E r \in Runs : SeqStep(r)) \/ Tick

SeqSpec == Init /\ [][SeqNext]_vars

(***************************************************************************)
(* The gate on its own: is_sendable_time applied to every pair of a        *)
(* stored last-sent time and a clock reading of the window, with and       *)
(* without a store handle.                                                 *)
(***************************************************************************)
GateInit ==
    /\ clock \in GateInstants
    /\ store \in {None} \cup {isoformat(t) : t \in GateInstants}
    /\ RunsInit
    /\ probe \in {[op |-> "none", redis |-> h] : h \in {None, Pool}}

ApplyGate ==
    /\ probe.op = "none"
    /\ probe' = [op     |-> "is_sendable_time",
                 redis  |-> probe.redis,
                 result |-> is_sendable_time(get_last_sent(probe.redis, store),
                                             clock)]
    /\ UNCHANGED <<clock, store, pc, redis, dow, payload, reads, writes,
                   raised, outbox, ticks>>

GateNext == ApplyGate

GateSpec == GateInit /\ [][GateNext]_vars

(***************************************************************************)
(* The digest pipeline on its own: lines 190-203 of main applied to a      *)
(* clock reading and one answer of each source.                            *)
(***************************************************************************)
DigestInit ==
    /\ clock \in DigestInstants
    /\ store = None
    /\ RunsInit
    /\ probe \in {[op |-> "none", nyse |-> a, nasdaq |-> b, enable |-> e] :
                      a \in NyseInputs, b \in NasdaqInputs, e \in BOOLEAN}

ApplyDigest ==
    /\ probe.op = "none"
    /\ LET d       == isoweekday(pacnow(clock))
           chained == Chained(probe.nyse, probe.nasdaq, probe.enable)
       IN  probe' = [op      |-> "digest",
                     nyse    |-> probe.nyse,
                     nasdaq  |-> probe.nasdaq,
                     enable  |-> probe.enable,
                     dow     |-> d,
                     subject |-> Subject(d),
                     chained |-> chained,
                     kept    |-> IF IsError(chained) THEN <<>>
                                 ELSE Filtered(chained.list, d),
                     result  |-> Digest(probe.nyse, probe.nasdaq,
                                        probe.enable, d)]
    /\ UNCHANGED <<clock, store, pc, redis, dow, payload, reads, writes,
                   raised, outbox, ticks>>

DigestNext == ApplyDigest

DigestSpec == DigestInit /\ [][DigestNext]_vars

(***************************************************************************)
(* The claims.  Weekdays are ISO numbers: Saturday is 6 and Sunday is 7.   *)
(***************************************************************************)
\* the mails of run r the transport accepted
MailsOf(box, r) == Len(SelectSeq(box, LAMBDA m : m.run = r))

\* the state of the orchestrator's state machine a run is in
Stage(p) == IF p = "CLASSIFY" THEN "FETCH_AND_FILTER" ELSE p

StageOrder ==
    {<<"START", "GATE_CHECK">>, <<"START", "ABORTED">>,
     <<"GATE_CHECK", "FETCH_AND_FILTER">>, <<"GATE_CHECK", "DONE">>,
     <<"FETCH_AND_FILTER", "SEND">>, <<"FETCH_AND_FILTER", "ABORTED">>,
     <<"SEND", "RECORD_STATE">>, <<"SEND", "ABORTED">>,
     <<"RECORD_STATE", "DONE">>}

\* C1: a step of a run that leaves SEND without the transport having
\* accepted the mail (a non-success answer, or a transport error) ends the
\* run ABORTED with an exception surfaced, leaves the store as it was and
\* the run's count of store writes at 0; an ABORTED run takes no further
\* step, so it never writes the store.
C1_FailedSendNeverRecords ==
    [][\A r \in Runs :
          /\ (pc[r] = "SEND" /\ pc'[r] # "SEND" /\ outbox' = outbox)
                => /\ pc'[r] = "ABORTED"
                   /\ raised'[r] # None
                   /\ store' = store
                   /\ writes'[r] = 0
          /\ pc[r] = "ABORTED"
                => (pc'[r] = "ABORTED" /\ writes'[r] = writes[r])]_vars

\* a run with a store handle was refused by the transport: it is aborted,
\* has not written the store, and the store still holds its older value
C1_Witness ==
    \E r \in Runs :
        /\ pc[r] = "ABORTED"
        /\ raised[r] = [error |-> "HTTPStatusError", at |-> "SEND"]
        /\ reads[r] = 1
        /\ writes[r] = 0
        /\ store # None

\* C2: a run leaves GATE_CHECK for DONE exactly when the gate denies, and
\* then without a mail or a store write (and, DONE being final, without a
\* fetch); it leaves GATE_CHECK for FETCH_AND_FILTER exactly when the gate
\* permits; the states are visited in the order START, GATE_CHECK,
\* FETCH_AND_FILTER, SEND, RECORD_STATE, DONE, never backwards and never
\* twice; a mail is sent only by the step leaving SEND and the store
\* written only by the step from RECORD_STATE to DONE.
C2_GateDecidesThePath ==
    [][\A r \in Runs :
          LET a == Stage(pc[r])
              b == Stage(pc'[r])
              sendable ==
                  is_sendable_time(get_last_sent(redis[r], store), clock)
          IN  /\ a # b => <<a, b>> \in StageOrder
              /\ a = b => \/ pc'[r] = pc[r]
                          \/ pc[r] = "CLASSIFY" /\ pc'[r] = "FETCH_AND_FILTER"
              /\ (a = "GATE_CHECK" /\ b = "DONE") => ~sendable
              /\ (a = "GATE_CHECK" /\ b = "FETCH_AND_FILTER") => sendable
              /\ MailsOf(outbox', r) # MailsOf(outbox, r)
                    => /\ a = "SEND" /\ b # "SEND"
                       /\ MailsOf(outbox', r) = MailsOf(outbox, r) + 1
              /\ writes'[r] # writes[r]
                    => /\ a = "RECORD_STATE" /\ b = "DONE"
                       /\ writes'[r] = writes[r] + 1
              /\ a \in {"DONE", "ABORTED"} => b = a]_vars

\* a run that read the store and was denied: DONE with no mail and no write
C2_Witness ==
    \E r \in Runs :
        /\ pc[r] = "DONE"
        /\ reads[r] = 1
        /\ writes[r] = 0
        /\ MailsOf(outbox, r) = 0
        /\ store # None

GateApplied == probe.op = "is_sendable_time"

\* what get_last_sent returned to the gate
LastSentRead == get_last_sent(probe.redis, store)

\* the instant the stored last-sent string denotes
LastSentInstant == fromisoformat(LastSentRead).ts

\* C3: with last_sent absent the gate returns true, whatever now is.
C3_AbsentLastSentIsSendable ==
    (GateApplied /\ LastSentRead = None) => probe.result

\* the store is connected and empty, now is a Saturday (US/Pacific), and the
\* gate returned true
C3_Witness ==
    /\ GateApplied
    /\ probe.redis = Pool
    /\ store = None
    /\ isoweekday(pacnow(clock)) = 6
    /\ probe.result

\* C4 as stated: on a Saturday (US/Pacific) the gate returns false for
\* every last_sent, absent included.
C4_SaturdayNeverSendable ==
    (GateApplied /\ isoweekday(pacnow(clock)) = 6) => ~probe.result

\* C4 as amended: on a Saturday (US/Pacific) the gate returns false for
\* every last_sent that is present, however old.
C4_SaturdayWithLastSentNotSendable ==
    (GateApplied /\ isoweekday(pacnow(clock)) = 6 /\ LastSentRead # None)
        => ~probe.result

\* a Saturday, the last send a day or more ago, and the gate returned false
C4_Witness ==
    /\ GateApplied
    /\ isoweekday(pacnow(clock)) = 6
    /\ LastSentRead # None
    /\ clock - LastSentInstant >= MinutesPerDay
    /\ ~probe.result

\* the US/Pacific calendar date (a day number) of an instant
LocalDateOf(ts) == LocalDays(pacnow(ts))

\* C5: with last_sent present and now not a Saturday, the gate returns true
\* if and only if the local hour of now is in [8, 10] and the local
\* calendar dates of last_sent and now differ, or 24 hours or more have
\* elapsed since last_sent.
C5_LocalDayRule ==
    (GateApplied /\ LastSentRead # None /\ isoweekday(pacnow(clock)) # 6)
        => (probe.result <=>
                \/ /\ HourOf(pacnow(clock)) \in 8..10
                   /\ LocalDateOf(LastSentInstant) # LocalDateOf(clock)
                \/ clock - LastSentInstant >= MinutesPerDay)

\* C6: with last_sent exactly 24 hours before now and now not a Saturday,
\* the gate returns true.
C6_ExactlyADayIsSendable ==
    (/\ GateApplied
     /\ LastSentRead # None
     /\ isoweekday(pacnow(clock)) # 6
     /\ clock - LastSentInstant = MinutesPerDay) => probe.result

\* exactly 24 hours elapsed, outside the morning window, and the gate
\* returned true
C6_Witness ==
    /\ GateApplied
    /\ LastSentRead # None
    /\ isoweekday(pacnow(clock)) # 6
    /\ clock - LastSentInstant = MinutesPerDay
    /\ HourOf(pacnow(clock)) \notin 8..10
    /\ probe.result

\* C7: no run is aborted over the store (unconfigured, bypassed or
\* unreachable), and a run without a store handle is never denied by the
\* gate: when it is DONE it has sent its mail.
C7_StoreUnavailableIsNotFatal ==
    \A r \in Runs :
        /\ pc[r] = "ABORTED" => raised[r].at # "START"
        /\ (pc[r] = "DONE" /\ reads[r] = 0) => MailsOf(outbox, r) = 1

DigestApplied == probe.op = "digest"

\* the rows the sources answered with, in the order of chain(nyse, nasdaq)
SourceRows ==
    probe.nyse.rows \o (IF probe.enable THEN probe.nasdaq.rows ELSE <<>>)

\* the date string of an upstream row
DateStringOf(row) ==
    IF "expected_dt_report" \in DOMAIN row THEN row.expected_dt_report
    ELSE row.expectedPriceDate

\* the string is a valid MM/DD/YYYY date falling on ISO weekday w
FallsOn(date_str, w) ==
    /\ Truthy(date_str)
    /\ ~IsError(strptime(date_str.c))
    /\ isoweekday(strptime(date_str.c)) = w

\* the digest of exactly the listings whose date string falls on weekday w
DigestOfWeekday(w) ==
    LET n     == Len(SourceRows)
        pairs == [k \in 1..n |-> [row |-> SourceRows[k],
                                  company |-> probe.chained.list[k]]]
        due   == SelectSeq(pairs, LAMBDA p : FallsOn(DateStringOf(p.row), w))
    IN  Render([k \in 1..Len(due) |-> due[k].company])

\* C8: on a weekday w other than Sunday (daily mode) the digest is that of
\* exactly the fetched listings whose source date string is a valid
\* MM/DD/YYYY date falling on ISO weekday w.
C8_DailyDigestIsTheDueListings ==
    (DigestApplied /\ ~IsError(probe.result) /\ probe.dow # 7)
        => probe.result.text = DigestOfWeekday(probe.dow)

\* C9: where the day-of-week filter is applied, no listing it retains has
\* an absent expected_date.
C9_AbsentDateNeverRetained ==
    (DigestApplied /\ ~IsError(probe.chained) /\ probe.dow # SUNDAY)
        => \A k \in 1..Len(probe.kept) : probe.kept[k].expected_date # None

\* the filter was applied on a Wednesday to listings one of which has an
\* empty date string, hence an absent expected_date, and dropped it
C9_Witness ==
    /\ DigestApplied
    /\ ~IsError(probe.chained)
    /\ probe.dow = 3
    /\ \E k \in 1..Len(SourceRows) :
           /\ ~Truthy(DateStringOf(SourceRows[k]))
           /\ probe.chained.list[k].expected_date = None
           /\ \A h \in 1..Len(probe.kept) :
                  probe.kept[h] # probe.chained.list[k]

\* C10: on a Sunday (US/Pacific) the subject is "This week's IPOs" and the
\* digest holds every fetched listing; on every other weekday the subject
\* is "Today's IPOs" and the digest holds the listings the filter for that
\* weekday retains.
C10_SundayIsWeekly ==
    DigestApplied =>
        IF isoweekday(pacnow(clock)) = 7
        THEN /\ probe.subject = "This week's IPOs"
             /\ ~IsError(probe.result)
                   => probe.result.text = Render(probe.chained.list)
        ELSE /\ probe.subject = "Today's IPOs"
             /\ ~IsError(probe.result)
                   => probe.result.text =
                          Render(SelectSeq(probe.chained.list,
                                           LAMBDA c :
                                               filter_company(c, probe.dow)))

\* C11: no mail handed to the transport has an empty body: where the
\* retained set of listings is empty the body is a placeholder text.
C11_NoEmptyBody ==
    \A k \in 1..Len(outbox) : outbox[k].text # ""

\* the source answered with a failure: a transport error or timeout, a
\* non-200 status, a body that is not JSON or lacks the key path
SourceFailed(resp) == resp \in Failures \cup Unparseable

\* the rows a source contributes: none when it failed
RowsOrNone(resp) == IF SourceFailed(resp) THEN <<>> ELSE resp.rows

\* C12: when a fetched source fails and the rows of the other are well
\* formed, no exception reaches main (the run goes on to SEND), the failed
\* source contributes an empty list and the listings of the other source
\* are kept.
C12_SourceFailureDegradesToEmpty ==
    LET nyse   == RowsOrNone(probe.nyse)
        nasdaq == IF probe.enable THEN RowsOrNone(probe.nasdaq) ELSE <<>>
    IN  (/\ DigestApplied
         /\ SourceFailed(probe.nyse)
                \/ (probe.enable /\ SourceFailed(probe.nasdaq))
         /\ \A k \in 1..Len(nyse) : ~IsError(NYSE(nyse[k]))
         /\ \A k \in 1..Len(nasdaq) : ~IsError(Nasdaq(nasdaq[k])))
            => /\ ~IsError(probe.chained)
               /\ ~IsError(probe.result)
               /\ probe.chained.list =
                      [k \in 1..Len(nyse) |-> NYSE(nyse[k])]
                          \o [k \in 1..Len(nasdaq) |-> Nasdaq(nasdaq[k])]

Handle(r) == IF redis[r] = None THEN 0 ELSE 1

\* C14: a run reads the store at most once, at GATE_CHECK and so before it
\* fetches or sends (exactly once when it has a store handle), and writes it
\* at most once, at RECORD_STATE after its mail was accepted: up to and
\* including SEND it has not written, an aborted run and a run the gate
\* denied have written zero times, and a run that completed after its send
\* has written as often as it read.
C14_StoreReadOnceWrittenOnce ==
    \A r \in Runs :
        /\ reads[r] <= 1
        /\ writes[r] <= 1
        /\ pc[r] \in {"START", "GATE_CHECK"}
              => (reads[r] = 0 /\ writes[r] = 0 /\ MailsOf(outbox, r) = 0)
        /\ pc[r] \in {"CLASSIFY", "FETCH_AND_FILTER", "SEND"}
              => /\ reads[r] = Handle(r)
                 /\ writes[r] = 0
                 /\ MailsOf(outbox, r) = 0
        /\ pc[r] = "RECORD_STATE"
              => /\ reads[r] = Handle(r)
                 /\ writes[r] = 0
                 /\ MailsOf(outbox, r) = 1
        /\ pc[r] = "ABORTED" => writes[r] = 0
        /\ pc[r] = "DONE"
              => IF MailsOf(outbox, r) = 0 THEN writes[r] = 0
                 ELSE MailsOf(outbox, r) = 1 /\ writes[r] = reads[r]

\* a run with a store handle completed: it sent one mail, read the store
\* once and wrote it once
C14_Witness ==
    \E r \in Runs :
        /\ pc[r] = "DONE"
        /\ MailsOf(outbox, r) = 1
        /\ reads[r] = 1
        /\ writes[r] = 1
        /\ store = isoformat(outbox[1].at)

\* run r crashed after the transport accepted its mail and before
\* RECORD_STATE: resp.json() raised at line 206
Crashed(r) ==
    /\ pc[r] = "ABORTED"
    /\ raised[r].at = "SEND"
    /\ MailsOf(outbox, r) = 1

\* two instants of one send window: the same local (US/Pacific) calendar
\* date, less than 24 hours apart
SameWindow(t, u) ==
    /\ LocalDateOf(t) = LocalDateOf(u)
    /\ u - t < MinutesPerDay
    /\ t - u < MinutesPerDay

\* run r shared the store and crashed after its mail was delivered within
\* the send window of the clock's time
DeliveredThenCrashed(r) ==
    /\ Crashed(r)
    /\ reads[r] = 1
    /\ \E k \in 1..Len(outbox) :
           outbox[k].run = r /\ SameWindow(outbox[k].at, clock)

\* C15 as stated: after a run crashed between its successful send and
\* RECORD_STATE the digest is delivered at most once for that send window:
\* a run that shares the store and whose gate check follows the crash within
\* the window is denied.
C15_CrashThenAtMostOnce ==
    [][\A q \in Runs :
          (/\ pc[q] = "GATE_CHECK"
           /\ pc'[q] # pc[q]
           /\ redis[q] # None
           /\ \E r \in Runs : DeliveredThenCrashed(r))
              => pc'[q] = "DONE"]_vars

\* C15 as amended: the step in which a run crashes after the transport
\* accepted its mail leaves the store as it was and the run without a store
\* write; and a run that shares the store and whose gate check follows the
\* crash, no write and no advance of the clock in between, reads the same
\* last_sent and passes the gate as the crashed run did.
C15_CrashLeavesStoreThenResend ==
    [][\A q \in Runs :
          /\ (/\ pc[q] = "SEND"
              /\ pc'[q] = "ABORTED"
              /\ MailsOf(outbox', q) = MailsOf(outbox, q) + 1)
                 => (store' = store /\ writes'[q] = 0)
          /\ (/\ pc[q] = "GATE_CHECK"
              /\ pc'[q] # pc[q]
              /\ redis[q] # None
              /\ ticks = 0
              /\ \A x \in Runs : writes[x] = 0
              /\ \E r \in Runs : DeliveredThenCrashed(r))
                 => pc'[q] = "CLASSIFY"]_vars

\* a run crashed after its mail was delivered, the store still holds the
\* older value both runs read, and a second run has delivered the digest
\* again in the same send window
C15_Witness ==
    \E r, q \in Runs :
        /\ r # q
        /\ DeliveredThenCrashed(r)
        /\ writes[r] = 0
        /\ reads[q] = 1
        /\ store # None
        /\ fromisoformat(store).ts < outbox[1].at
        /\ Len(outbox) = 2
        /\ outbox[1].run = r
        /\ outbox[2].run = q
        /\ SameWindow(outbox[1].at, outbox[2].at)

RECURSIVE IsSubseq(_, _)
\* a is b with some elements left out, the others in b's order
IsSubseq(a, b) ==
    IF a = <<>> THEN TRUE
    ELSE IF b = <<>> THEN FALSE
    ELSE IF Head(a) = Head(b) THEN IsSubseq(Tail(a), Tail(b))
    ELSE IsSubseq(a, Tail(b))

C17_NullOptionalFieldsTolerated ==
    (/\ DigestApplied
     /\ probe.nyse \in {Ok(rs) : rs \in SeqsUpTo(NyseSamples, MaxRows)}
     /\ probe.nasdaq \in {Ok(rs) : rs \in SeqsUpTo(NasdaqSamples, MaxRows)})
        => /\ ~IsError(probe.chained)
           /\ ~IsError(probe.result)
           /\ Len(probe.chained.list) = Len(SourceRows)
           /\ \A k \in 1..Len(SourceRows) :
                  LET row == SourceRows[k]
                      c   == probe.chained.list[k]
                  IN  /\ c.symbol = None
                         => make_company_line(c.name, c.symbol)
                                = "Company: " \o Str(c.name)
                      /\ ("sharesOffered" \in DOMAIN row
                              /\ row.sharesOffered = None)
                         => c.amount_filed = JStr(<<"Unspecified">>)

\* run r read the store and the gate denied it
Denied(r) ==
    /\ pc[r] = "DONE"
    /\ reads[r] = 1
    /\ MailsOf(outbox, r) = 0

\* run r read the store and the gate passed it
Passed(r) ==
    /\ reads[r] = 1
    /\ \/ pc[r] \in {"CLASSIFY", "FETCH_AND_FILTER", "SEND", "RECORD_STATE"}
       \/ MailsOf(outbox, r) = 1
       \/ pc[r] = "ABORTED" /\ raised[r].at \in {"FETCH_AND_FILTER", "SEND"}

\* run r sent its mail and went through RECORD_STATE with a store handle
Recorded(r) ==
    /\ pc[r] = "DONE"
    /\ reads[r] = 1
    /\ MailsOf(outbox, r) = 1

\* C18: nothing coordinates the runs but the value in the store: while the
\* clock has not advanced, a run that shares the store is denied by the gate
\* after the gate passed another only if some run has recorded its send;
\* until a run records, every run that reads the store gets the answer the
\* first one got, and those the gate passes all send.
C18_OnlyAWriteSuppressesTheSecondSend ==
    (/\ ticks = 0
     /\ \E r, q \in Runs : Denied(r) /\ Passed(q))
        => \E x \in Runs : Recorded(x)

\* two runs read the same present last_sent before either wrote the store,
\* both passed the gate and both mails were delivered at the same instant:
\* two sends for one send window
C18_Witness ==
    \E r, q \in Runs :
        /\ r # q
        /\ pc[r] = "RECORD_STATE"
        /\ pc[q] = "RECORD_STATE"
        /\ reads[r] = 1
        /\ reads[q] = 1
        /\ store # None
        /\ \A x \in Runs : writes[x] = 0
        /\ Len(outbox) = 2
        /\ outbox[1].run # outbox[2].run
        /\ outbox[1].at = outbox[2].at

\* the k-th mail was sent by a run that shared the store and did not crash
StoreSend(k) ==
    /\ reads[outbox[k].run] = 1
    /\ pc[outbox[k].run] # "ABORTED"

\* C19: with the runs strictly one after the other, any two mails sent by
\* runs that share the store and do not crash were sent on different local
\* (US/Pacific) calendar days or 24 hours or more apart: after a send at t
\* no later run sends on the same local day before t + 24h.
C19_OncePerLocalDay ==
    \A k, h \in 1..Len(outbox) :
        (k < h /\ StoreSend(k) /\ StoreSend(h))
            => ~SameWindow(outbox[k].at, outbox[h].at)

\* two runs, one after the other, both sent and recorded, the second on
\* the next local day less than 24 hours after the first
C19_Witness ==
    /\ Len(outbox) = 2
    /\ outbox[1].run # outbox[2].run
    /\ Recorded(outbox[1].run)
    /\ Recorded(outbox[2].run)
    /\ writes[outbox[1].run] = 1
    /\ writes[outbox[2].run] = 1
    /\ outbox[2].at - outbox[1].at < MinutesPerDay
    /\ LocalDateOf(outbox[2].at) = LocalDateOf(outbox[1].at) + 1

\* C20: the weekday that selects the mode and the filter of a run's digest
\* is that of the instant the gate evaluated; in particular a run that read
\* a present last_sent (the store holds a value and no run has written it)
\* and whose mail the transport accepted did not classify the day as the
\* no-send weekday, Saturday.
C20_ClassifierWeekdayIsTheGates ==
    \A r \in Runs :
        (/\ pc[r] = "RECORD_STATE"
         /\ redis[r] # None
         /\ store # None
         /\ \A x \in Runs : writes[x] = 0)
            => dow[r] # 6

====
